---- MODULE Spec2Model ----
(***************************************************************************)
(* The recommendation endpoint of the api-gateway                          *)
(* (services/api-gateway/src/routes/health.ts, POST /recommendations):     *)
(* the primary path through the ai-compute service, the enrichment of its  *)
(* candidates from the catalog, the analytics inserts, and the fallback    *)
(* ranker getFallbackRecommendations.                                      *)
(*                                                                         *)
(* Conventions.  An optional JSON value (undefined / null or a value) is   *)
(* the empty set or a singleton: {} is "absent", {v} is "v".  Prices are   *)
(* whole currency units, relevance scores are hundredths (50 is 0.5).      *)
(* The handler is modelled while the pool exists (getPool() at            *)
(* health.ts:74 returns it).  The other parts of the system the claims     *)
(* speak of (the recommendations page, the stock route, the registration   *)
(* route, the db plugin, the browse page) have their own variables and     *)
(* their own specifications below.                                         *)
(***************************************************************************)
EXTENDS Integers, Sequences, FiniteSets, TLC

VARIABLES
    inventory,       \* TABLE inventory: the vendor offers, in row order
    pc,              \* where the handler of the request stands
    request,         \* request.body as it arrived ({} while no request is in flight)
    body,            \* the parsed request body ({} while no request is in flight)
    enriched,        \* enrichedRecommendations of the primary path
    stored,          \* positions of enriched whose analytics insert succeeded
    response,        \* what reply.send / the error handler sent
    primaryFailure,  \* what was thrown inside the try block ("none" if nothing)
    fallbackCalls,   \* invocations of getFallbackRecommendations in this request
    fallbackDb,      \* catalog as the fallback query found it: "none", "up", "down"
    recorderInput,   \* the rows of the analytics inserts issued ({} if none was)
    earlier          \* an earlier request and the fallback list it was sent

\* RecommendationsPage (frontend)
VARIABLES
    loading,         \* useState(false): the button is disabled while true
    recommendations, \* useState([]): the candidates the page shows
    usage,           \* preferences.usage ("" when none is selected)
    pagePc,          \* where handleGetRecommendations stands
    clickUsage,      \* preferences.usage as the running call captured it
    shownFrom,       \* which call filled recommendations: "none", "recommend", "by-usage"
    pageOutcome      \* how the last call of handleGetRecommendations ended

\* PATCH /inventory/:id/stock on one row of TABLE inventory
VARIABLES
    stock,           \* stock_quantity of the row
    stockReqs,       \* the request of each client: its body and where it stands
    batchStart       \* stock_quantity when the requests now in flight began

\* POST /users/register
VARIABLES
    users,           \* TABLE users: rows of user_id, email, user_type
    vendors,         \* TABLE vendors: the user_id of each row
    regs             \* the registration of each client: its body and where it stands

\* db/index.ts: the pool singleton and the db plugin
VARIABLES
    pool,            \* export let pool: {} is null, else the state of the Pool object
    plugin,          \* how far the db plugin of the application has come
    getPoolLog       \* the calls of getPool(): where the plugin stood, and the result

\* BrowsePage (frontend)
VARIABLES
    browseRequests,  \* the requests the page has issued, in order: what issued each
    browsePending,   \* the requests whose response has not arrived
    browseFailed,    \* the requests that were rejected
    laptops          \* useState([]): the request whose response is displayed (0: none)

handlerVars == <<inventory, pc, request, body, enriched, stored, response,
                 primaryFailure, fallbackCalls, fallbackDb, recorderInput, earlier>>

pageVars == <<loading, recommendations, usage, pagePc, clickUsage, shownFrom,
              pageOutcome>>

stockVars == <<stock, stockReqs, batchStart>>

registerVars == <<users, vendors, regs>>

poolVars == <<pool, plugin, getPoolLog>>

browseVars == <<browseRequests, browsePending, browseFailed, laptops>>

\* the state of everything but the handler of POST /recommendations
sideVars == <<pageVars, stockVars, registerVars, poolVars, browseVars>>

\* the state of everything but the page, but the stock, but the
\* registrations, but the pool
notPage == <<handlerVars, stockVars, registerVars, poolVars, browseVars>>
notStock == <<handlerVars, pageVars, registerVars, poolVars, browseVars>>
notRegister == <<handlerVars, pageVars, stockVars, poolVars, browseVars>>
notPool == <<handlerVars, pageVars, stockVars, registerVars, browseVars>>
notBrowse == <<handlerVars, pageVars, stockVars, registerVars, poolVars>>

vars == <<handlerVars, sideVars>>

----------------------------------------------------------------------------
(* Bounds of the model *)

MaxOffers == 2       \* rows of TABLE inventory
MaxAiRecs == 2       \* candidates in one reply of the ai-compute service
MaxPageItems == 2    \* candidates in one response the page receives
MaxBrowseRequests == 3 \* requests the browse page issues
MaxGetPoolCalls == 3 \* calls of getPool() the model records
NumClients == 2      \* clients that patch the stock of the row concurrently
MaxStock == 3        \* the model follows the row up to this stock_quantity

(* Program constants *)

TopKMin == 1         \* top_k: z.number().int().min(1)
TopKMax == 20        \* .max(20)
TopKDefault == 5     \* .default(5)
FallbackScore == 50  \* 0.5 as relevance_score, in hundredths
ByUsageScore == 80   \* relevance_score: 0.8 of the page, in hundredths

----------------------------------------------------------------------------
(* Optional values and JavaScript truthiness *)

Absent == {}
Some(v) == {v}
Declared(x) == x # {}
Val(x) == CHOOSE v \in x : TRUE

\* if (prefs.max_budget), if (prefs.min_ram_gb): undefined and 0 are falsy
TruthyNum(x) == Declared(x) /\ Val(x) # 0
\* if (prefs.preferred_gpu_type): undefined is falsy, the enum values are not
TruthyStr(x) == Declared(x) /\ Val(x) # ""

----------------------------------------------------------------------------
(* The catalog: laptop_models JOIN brands JOIN hardware_specs *)

ModelIds == {1, 2, 3}
UnknownId == 9        \* an id that is no model_id of laptop_models

LaptopModels ==
    [m \in ModelIds |->
        CASE m = 1 -> [model_id |-> 1, model_name |-> "A", ram_gb |-> 8,
                       gpu_type |-> "Integrated", weight_kg |-> 1,
                       is_discontinued |-> FALSE]
          [] m = 2 -> [model_id |-> 2, model_name |-> "B", ram_gb |-> 16,
                       gpu_type |-> "Dedicated", weight_kg |-> 3,
                       is_discontinued |-> FALSE]
          [] OTHER -> [model_id |-> 3, model_name |-> "C", ram_gb |-> 16,
                       gpu_type |-> "Dedicated", weight_kg |-> 1,
                       is_discontinued |-> TRUE]]

Prices == {1, 2}

\* The rows of TABLE inventory the model draws from (chk_unit_price:
\* unit_price > 0, chk_stock_quantity: stock_quantity >= 0).  No query of
\* this module reads the stock of an unavailable row, nor the price of a row
\* of a discontinued model other than to compare it, so one row of each kind
\* stands for the others.
Offers ==
    {o \in [model_id : ModelIds, unit_price : Prices,
            is_available : BOOLEAN, stock_quantity : {0, 1}] :
        /\ ~o.is_available => o.stock_quantity = 1
        /\ LaptopModels[o.model_id].is_discontinued =>
               (o.unit_price = 1 /\ o.is_available /\ o.stock_quantity = 1)}

Inventories == UNION {[1..n -> Offers] : n \in 0..MaxOffers}

----------------------------------------------------------------------------
(* The request *)

\* user_preferences as the schema reads them; every field optional but
\* primary_usage (health.ts:54-64)
UsageEnum == {"Gaming", "Programming", "Design", "Video Editing", "Office",
              "Student", "General", "Workstation"}
GpuEnum == {"Integrated", "Dedicated", "Hybrid"}

NoPreferences ==
    [min_budget |-> Absent, max_budget |-> Absent, primary_usage |-> Some("Gaming"),
     min_ram_gb |-> Absent, preferred_gpu_type |-> Absent, max_weight_kg |-> Absent,
     prefer_thin_and_light |-> Absent]

\* The preference profiles requests are drawn from: no preference, or one
\* declared field, or no usage tag.
PreferenceInputs ==
    {NoPreferences,
     [NoPreferences EXCEPT !.max_budget = Some(0)],
     [NoPreferences EXCEPT !.max_budget = Some(1)],
     [NoPreferences EXCEPT !.min_budget = Some(2)],
     [NoPreferences EXCEPT !.min_ram_gb = Some(16)],
     [NoPreferences EXCEPT !.preferred_gpu_type = Some("Dedicated")],
     [NoPreferences EXCEPT !.max_weight_kg = Some(2)],
     [NoPreferences EXCEPT !.prefer_thin_and_light = Some(TRUE)],
     [NoPreferences EXCEPT !.primary_usage = Some("Office")],
     [NoPreferences EXCEPT !.primary_usage = Absent]}

TopKInputs == {Absent, Some(0), Some(1), Some(TopKMax + 1)}

RequestInputs == [user_preferences : PreferenceInputs, top_k : TopKInputs]

\* the schema without the range of top_k
SchemaWithoutTopKRange(req) ==
    /\ Declared(req.user_preferences.primary_usage)
    /\ Val(req.user_preferences.primary_usage) \in UsageEnum
    /\ Declared(req.user_preferences.preferred_gpu_type) =>
           Val(req.user_preferences.preferred_gpu_type) \in GpuEnum

\* recommendationSchema.parse: the parsed body, or {} when parse throws
SchemaAccepts(req) ==
    /\ Declared(req.user_preferences.primary_usage)
    /\ Val(req.user_preferences.primary_usage) \in UsageEnum
    /\ Declared(req.user_preferences.preferred_gpu_type) =>
           Val(req.user_preferences.preferred_gpu_type) \in GpuEnum
    /\ Declared(req.top_k) =>
           (Val(req.top_k) >= TopKMin /\ Val(req.top_k) <= TopKMax)

recommendationSchema(req) ==
    IF SchemaAccepts(req)
    THEN Some([user_preferences |-> req.user_preferences,
               top_k |-> IF Declared(req.top_k) THEN Val(req.top_k) ELSE TopKDefault])
    ELSE Absent

----------------------------------------------------------------------------
(* Sequences *)

\* the first n elements of s
Take(s, n) == SubSeq(s, 1, IF n < Len(s) THEN n ELSE Len(s))

\* every arrangement of the elements of the finite set S
Arrangements(S) ==
    {s \in [1..Cardinality(S) -> S] : \A x \in S : \E i \in 1..Cardinality(S) : s[i] = x}

Min(S) == CHOOSE x \in S : \A y \in S : x <= y

----------------------------------------------------------------------------
(* The catalog queries *)

\* rows of inventory the LEFT JOIN of the enrichment query keeps for a model:
\* ON lm.model_id = i.model_id AND i.is_available = true (health.ts:117)
AvailableOffers(m) ==
    {i \in 1..Len(inventory) : inventory[i].model_id = m /\ inventory[i].is_available}

\* the enrichment query of one candidate (health.ts:97-123): laptopResult.rows
\* has one row when spec_id is a model_id, none otherwise; MIN over no row is
\* NULL
EnrichmentRows(spec_id) ==
    IF spec_id \in ModelIds
    THEN Some([model_id |-> spec_id,
               model_name |-> LaptopModels[spec_id].model_name,
               ram_gb |-> LaptopModels[spec_id].ram_gb,
               min_price |-> IF AvailableOffers(spec_id) = {} THEN Absent
                             ELSE Some(Min({inventory[i].unit_price :
                                             i \in AvailableOffers(spec_id)})),
               available_from |-> Cardinality(AvailableOffers(spec_id))])
    ELSE Absent

\* return { ...rec, laptop: laptopResult.rows[0] || null } (health.ts:125-128)
Enrich(rec) ==
    [spec_id |-> rec.spec_id, relevance_score |-> rec.relevance_score,
     laptop |-> EnrichmentRows(rec.spec_id)]

enrichedRecommendations(recs) == [k \in 1..Len(recs) |-> Enrich(recs[k])]

\* the WHERE clause getFallbackRecommendations builds (health.ts:370-392),
\* for row i of inventory joined with its model
FallbackWhere(prefs, i) ==
    /\ ~LaptopModels[inventory[i].model_id].is_discontinued
    /\ inventory[i].is_available
    /\ inventory[i].stock_quantity > 0
    /\ TruthyNum(prefs.max_budget) => inventory[i].unit_price <= Val(prefs.max_budget)
    /\ TruthyNum(prefs.min_ram_gb) =>
           LaptopModels[inventory[i].model_id].ram_gb >= Val(prefs.min_ram_gb)
    /\ TruthyStr(prefs.preferred_gpu_type) =>
           LaptopModels[inventory[i].model_id].gpu_type = Val(prefs.preferred_gpu_type)

\* FROM laptop_models lm ... JOIN inventory i ON lm.model_id = i.model_id
\* WHERE ...: one row per row of inventory that passes (health.ts:405-409)
FallbackMatches(prefs) == {i \in 1..Len(inventory) : FallbackWhere(prefs, i)}

\* the query without its ORDER BY: the rows in any order
InAnyOrder(rows) == Arrangements(rows)

\* ORDER BY i.unit_price ASC (health.ts:410): the orders SQL may return the
\* rows in; rows of equal price come in any order
OrderByUnitPriceAsc(rows) ==
    {s \in Arrangements(rows) :
        \A a, b \in 1..Cardinality(rows) :
            a < b => inventory[s[a]].unit_price <= inventory[s[b]].unit_price}

\* a candidate of the fallback query that carries no score of its own
CandidateWithoutScore(i) ==
    [spec_id |-> inventory[i].model_id,
     relevance_score |-> 0,
     laptop |-> Some([spec_id |-> inventory[i].model_id,
                      model_name |-> LaptopModels[inventory[i].model_id].model_name,
                      ram_gb |-> LaptopModels[inventory[i].model_id].ram_gb,
                      gpu_type |-> LaptopModels[inventory[i].model_id].gpu_type,
                      min_price |-> Some(inventory[i].unit_price),
                      relevance_score |-> 0]),
     matched_features |-> <<>>]

\* the SELECT list (health.ts:395-404) and the map of result.rows
\* (health.ts:418-423), for row i of inventory
FallbackCandidate(i) ==
    [spec_id |-> inventory[i].model_id,
     relevance_score |-> FallbackScore,
     laptop |-> Some([spec_id |-> inventory[i].model_id,
                      model_name |-> LaptopModels[inventory[i].model_id].model_name,
                      ram_gb |-> LaptopModels[inventory[i].model_id].ram_gb,
                      gpu_type |-> LaptopModels[inventory[i].model_id].gpu_type,
                      min_price |-> Some(inventory[i].unit_price),
                      relevance_score |-> FallbackScore]),
     matched_features |-> <<>>]

\* the lists getFallbackRecommendations can return when its query runs:
\* ORDER BY, then LIMIT top_k (health.ts:411-414)
getFallbackRecommendations(b) ==
    {[k \in 1..Len(Take(s, b.top_k)) |-> FallbackCandidate(s[k])] :
        s \in OrderByUnitPriceAsc(FallbackMatches(b.user_preferences))}

----------------------------------------------------------------------------
(* The reason stored with a recommendation *)

\* reasons.join(', ')
RECURSIVE Join(_)
Join(parts) ==
    IF Len(parts) = 0 THEN ""
    ELSE IF Len(parts) = 1 THEN parts[1]
    ELSE parts[1] \o ", " \o Join(Tail(parts))

\* recommendation.laptop?.f: undefined when there is no laptop, or when the
\* row has no column f
LaptopField(recommendation, f) ==
    IF Declared(recommendation.laptop) /\ f \in DOMAIN Val(recommendation.laptop)
    THEN Some(Val(recommendation.laptop)[f])
    ELSE Absent

\* the reasons array of generateRecommendationReason (health.ts:339-357)
Reasons(recommendation, preferences) ==
    (IF /\ preferences.primary_usage = Some("Gaming")
        /\ LaptopField(recommendation, "gpu_type") = Some("Dedicated")
     THEN <<"Dedicated GPU for gaming performance">> ELSE <<>>)
    \o
    (IF /\ Declared(LaptopField(recommendation, "ram_gb"))
        /\ Val(LaptopField(recommendation, "ram_gb")) >= 16
     THEN <<ToString(Val(LaptopField(recommendation, "ram_gb")))
              \o "GB RAM for smooth multitasking">>
     ELSE <<>>)
    \o
    (IF /\ preferences.prefer_thin_and_light = Some(TRUE)
        /\ Declared(recommendation.laptop)
     THEN <<"Portable design for on-the-go use">> ELSE <<>>)
    \o
    (IF /\ TruthyNum(preferences.max_budget)
        /\ Declared(LaptopField(recommendation, "min_price"))
        /\ TruthyNum(Val(LaptopField(recommendation, "min_price")))
        /\ Val(Val(LaptopField(recommendation, "min_price"))) <= Val(preferences.max_budget)
     THEN <<"Within your budget">> ELSE <<>>)

\* the function without its generic reason: the joined reasons, whatever
\* their number
JoinedReasonsOnly(recommendation, preferences) ==
    Join(Reasons(recommendation, preferences))

\* return reasons.length > 0 ? reasons.join(', ') : 'Matches your preferences'
\* (health.ts:359)
generateRecommendationReason(recommendation, preferences) ==
    IF Len(Reasons(recommendation, preferences)) > 0
    THEN Join(Reasons(recommendation, preferences))
    ELSE "Matches your preferences"

\* the values of the analytics inserts, one row per candidate
\* (health.ts:133-146): model_id is rec.laptop?.model_id
InsertRows(recs, preferences) ==
    [k \in 1..Len(recs) |->
        [model_id |-> LaptopField(recs[k], "model_id"),
         relevance_score |-> recs[k].relevance_score,
         recommendation_reason |->
             generateRecommendationReason(recs[k], preferences)]]

----------------------------------------------------------------------------
(* The replies *)

NoReply ==
    [status |-> 0, success |-> FALSE, recommendations |-> <<>>,
     note |-> Absent, error |-> Absent]

\* a reply that carries no note, whatever path produced the list
UnmarkedReply(list, note) ==
    [status |-> 200, success |-> TRUE, recommendations |-> list,
     note |-> Absent, error |-> Absent]

\* reply.send({ success: true, data: { recommendations, ... } })
\* (health.ts:152-159), with the note of the fallback reply (health.ts:166-174)
ListReply(list, note) ==
    [status |-> 200, success |-> TRUE, recommendations |-> list,
     note |-> note, error |-> Absent]

FallbackNote == Some("Fallback recommendations (AI service unavailable)")

\* setErrorHandler: reply.code(error.statusCode || 500).send({ error:
\* error.name, ... }) for an error the handler lets through
ErrorReply(name) ==
    [status |-> 500, success |-> FALSE, recommendations |-> <<>>,
     note |-> Absent, error |-> Some(name)]

----------------------------------------------------------------------------
(* The ai-compute service, as the handler sees it: an HTTP reply it uses     *)
(* unchecked (health.ts:80-96)                                              *)

AiIds == {2, UnknownId}
AiScores == {90}
AiRecs == [spec_id : AiIds, relevance_score : AiScores]
AiReplies == UNION {[1..n -> AiRecs] : n \in 0..MaxAiRecs}

\* what the try block (health.ts:78-159) can throw before it replies
PrimaryFailures ==
    {"FetchRejected", "ServiceError", "MalformedReply", "EnrichmentQueryFailed",
     "InsertRejected"}

\* a catch block that handles the errors of the service only and rethrows
\* the rest
CaughtServiceErrorsOnly(failure) == failure \in {"FetchRejected", "ServiceError"}

\* catch (error: any) (health.ts:160): whatever the try block threw is caught
Caught(failure) == failure \in PrimaryFailures

\* db at health.ts:416 is a free identifier: getFallbackRecommendations
\* receives app and binds no db, and the module scope holds none.  Whether it
\* resolves depends on what the build leaves in scope.
FreeIdentifierOutcomes == {"bound", "ReferenceError"}

----------------------------------------------------------------------------
(* The parts of the system at rest *)

\* RecommendationsPage as it mounts (part_004:35-46), no usage in the URL
PageIdle ==
    /\ loading = FALSE
    /\ recommendations = <<>>
    /\ usage = ""
    /\ pagePc = "ready"
    /\ clickUsage = ""
    /\ shownFrom = "none"
    /\ pageOutcome = "none"

\* no stock request in flight
NoStockRequest ==
    [pc |-> "idle", operation |-> "", quantity |-> 0, seen |-> 0, before |-> 0,
     after |-> 0, status |-> 0]

StockIdle ==
    /\ stock = 0
    /\ stockReqs = [c \in 1..NumClients |-> NoStockRequest]
    /\ batchStart = 0

\* no registration in flight
NoRegistration ==
    [pc |-> "idle", email |-> "", user_type |-> "", user_id |-> 0, taken |-> FALSE,
     status |-> 0, message |-> ""]

RegisterIdle ==
    /\ users = {}
    /\ vendors = <<>>
    /\ regs = [c \in 1..NumClients |-> NoRegistration]

\* the module as loaded: pool is null (db/index.ts:18), nothing registered.
\* The other parts of this module take the pool as initialized.
PoolIdle ==
    /\ pool = Absent
    /\ plugin = "unregistered"
    /\ getPoolLog = <<>>

\* the browse page is not mounted
BrowseIdle ==
    /\ browseRequests = <<>>
    /\ browsePending = {}
    /\ browseFailed = {}
    /\ laptops = 0

SideIdle == PageIdle /\ StockIdle /\ RegisterIdle /\ PoolIdle /\ BrowseIdle

----------------------------------------------------------------------------
(* The handler of POST /recommendations *)

Init ==
    /\ inventory \in Inventories
    /\ pc = "idle"
    /\ request = Absent
    /\ body = Absent
    /\ enriched = <<>>
    /\ stored = {}
    /\ response = NoReply
    /\ primaryFailure = "none"
    /\ fallbackCalls = 0
    /\ fallbackDb = "none"
    /\ recorderInput = Absent
    /\ earlier = Absent
    /\ SideIdle

\* health.ts:73-76: parse the body; a ZodError leaves the handler before the
\* try block and reaches the error handler
PostRecommendations(req) ==
    /\ pc = "idle"
    /\ request' = Some(req)
    /\ body' = recommendationSchema(req)
    /\ IF Declared(recommendationSchema(req))
       THEN pc' = "fetch" /\ response' = NoReply
       ELSE pc' = "done" /\ response' = ErrorReply("ZodError")
    /\ UNCHANGED <<inventory, enriched, stored, primaryFailure, fallbackCalls,
                   fallbackDb, recorderInput, earlier, sideVars>>

\* something is thrown inside the try block
Throw(failure) ==
    /\ primaryFailure' = failure
    /\ IF Caught(failure)
       THEN pc' = "catch" /\ response' = NoReply
       ELSE pc' = "done" /\ response' = ErrorReply(failure)
    /\ UNCHANGED <<inventory, request, body, enriched, stored, fallbackCalls,
                   fallbackDb, recorderInput, earlier, sideVars>>

\* health.ts:80-86: fetch rejects (the service cannot be reached)
FetchRejects ==
    /\ pc = "fetch"
    /\ Throw("FetchRejected")

\* health.ts:88-90: the service answers with a status that is not ok
AiRespondsNotOk ==
    /\ pc = "fetch"
    /\ Throw("ServiceError")

\* health.ts:92-96: aiResponse.json() rejects, or aiData.recommendations is
\* no array
AiRespondsMalformed ==
    /\ pc = "fetch"
    /\ Throw("MalformedReply")

\* health.ts:92-146: the service answers with candidates; Promise.all of the
\* enrichment queries resolves, or rejects when a query fails; once it has
\* resolved the handler issues one insert per candidate and awaits them
AiResponds(recs, dbOk) ==
    /\ pc = "fetch"
    /\ IF dbOk \/ Len(recs) = 0
       THEN /\ enriched' = enrichedRecommendations(recs)
            /\ recorderInput' =
                   Some(InsertRows(enrichedRecommendations(recs),
                                   Val(body).user_preferences))
            /\ pc' = "store"
            /\ UNCHANGED <<inventory, request, body, stored, response,
                           primaryFailure, fallbackCalls, fallbackDb, earlier, sideVars>>
       ELSE Throw("EnrichmentQueryFailed")

\* the analytics insert of position k can succeed: model_id is NOT NULL in
\* TABLE recommendations, and rec.laptop?.model_id is undefined without laptop
Insertable(k) == Declared(enriched[k].laptop)

\* an insert without the .catch of health.ts:148: its rejection rejects
\* Promise.all
InsertFailureRejects(failing) == failing # {}

\* .catch(() => app.log.warn(...)) (health.ts:148): the promise of every
\* insert resolves, whether the insert failed or not
InsertFailureThrown(failing) == FALSE

\* health.ts:132-159: await Promise.all of the inserts, each failure swallowed
\* by its .catch, and only then the reply.  The step is taken when every
\* insert has settled.  failing: the positions whose insert fails
StoreAndReply(failing) ==
    /\ pc = "store"
    /\ \A k \in 1..Len(enriched) : ~Insertable(k) => k \in failing
    /\ IF InsertFailureThrown(failing \cap (1..Len(enriched)))
       THEN Throw("InsertRejected")
       ELSE /\ stored' = (1..Len(enriched)) \ failing
            /\ response' = ListReply(enriched, Absent)
            /\ pc' = "done"
            /\ UNCHANGED <<inventory, request, body, enriched, primaryFailure,
                           fallbackCalls, fallbackDb, recorderInput, earlier, sideVars>>

\* health.ts:160-175: the catch block calls getFallbackRecommendations and
\* replies with its list; what it throws reaches the error handler
Fallback(db, dbOk) ==
    /\ pc = "catch"
    /\ fallbackCalls' = fallbackCalls + 1
    /\ pc' = "done"
    /\ IF db = "ReferenceError"
       THEN response' = ErrorReply("ReferenceError") /\ fallbackDb' = "none"
       ELSE IF ~dbOk
            THEN response' = ErrorReply("QueryError") /\ fallbackDb' = "down"
            ELSE /\ fallbackDb' = "up"
                 /\ \E list \in getFallbackRecommendations(Val(body)) :
                        response' = ListReply(list, FallbackNote)
    /\ UNCHANGED <<inventory, request, body, enriched, stored, primaryFailure,
                   recorderInput, earlier, sideVars>>

\* the next request starts from a clean handler; the catalog stays
NextRequest ==
    /\ pc = "done"
    /\ pc' = "idle"
    /\ request' = Absent
    /\ body' = Absent
    /\ enriched' = <<>>
    /\ stored' = {}
    /\ response' = NoReply
    /\ primaryFailure' = "none"
    /\ fallbackCalls' = 0
    /\ fallbackDb' = "none"
    /\ recorderInput' = Absent
    /\ UNCHANGED <<inventory, earlier, sideVars>>

Next ==
    \/ \E req \in RequestInputs : PostRecommendations(req)
    \/ FetchRejects
    \/ AiRespondsNotOk
    \/ AiRespondsMalformed
    \/ \E recs \in AiReplies, dbOk \in BOOLEAN : AiResponds(recs, dbOk)
    \/ \E failing \in SUBSET (1..MaxAiRecs) : StoreAndReply(failing)
    \/ \E db \in FreeIdentifierOutcomes, dbOk \in BOOLEAN : Fallback(db, dbOk)
    \/ NextRequest

Spec == Init /\ [][Next]_vars

\* The handler's own steps run once the promise they await settles.  The
\* catalog queries settle; nothing in the code makes the fetch of
\* health.ts:80 settle (no signal, no timer), so no fairness is stated for
\* the steps that stand for the service's answer.
HandlerStep ==
    \/ \E failing \in SUBSET (1..MaxAiRecs) : StoreAndReply(failing)
    \/ \E db \in FreeIdentifierOutcomes, dbOk \in BOOLEAN : Fallback(db, dbOk)

FairSpec == Init /\ [][Next]_vars /\ WF_vars(HandlerStep)

\* The steps that stand for the answer of the ai-compute service
ServiceStep ==
    \/ FetchRejects
    \/ AiRespondsNotOk
    \/ AiRespondsMalformed
    \/ \E recs \in AiReplies, dbOk \in BOOLEAN : AiResponds(recs, dbOk)

\* The handler when the service answers and the catalog queries of the
\* fallback settle, while nothing is assumed of the time the analytics
\* inserts take: StoreAndReply waits for all of them (await Promise.all,
\* health.ts:132), and no timer bounds the wait.
SlowRecorderSpec ==
    /\ Init /\ [][Next]_vars
    /\ WF_vars(ServiceStep)
    /\ WF_vars(\E db \in FreeIdentifierOutcomes, dbOk \in BOOLEAN : Fallback(db, dbOk))

\* The same request served again while the service is down: the handler
\* answers from getFallbackRecommendations, and the next request starts with
\* the catalog unchanged and the list just sent kept for comparison
RepeatRequest ==
    /\ pc = "done"
    /\ earlier = Absent
    /\ response.status = 200
    /\ fallbackCalls = 1
    /\ earlier' = Some([request |-> Val(request), list |-> response.recommendations])
    /\ pc' = "idle"
    /\ request' = Absent
    /\ body' = Absent
    /\ response' = NoReply
    /\ primaryFailure' = "none"
    /\ fallbackCalls' = 0
    /\ fallbackDb' = "none"
    /\ UNCHANGED <<inventory, enriched, stored, recorderInput, sideVars>>

NextRepeat ==
    \/ \E req \in RequestInputs : PostRecommendations(req)
    \/ FetchRejects
    \/ AiRespondsNotOk
    \/ AiRespondsMalformed
    \/ \E db \in FreeIdentifierOutcomes, dbOk \in BOOLEAN : Fallback(db, dbOk)
    \/ RepeatRequest

RepeatSpec == Init /\ [][NextRepeat]_vars

----------------------------------------------------------------------------
(* RecommendationsPage: handleGetRecommendations (part_004:64-117)          *)

\* the handler of POST /recommendations at rest, with an empty catalog
HandlerIdle ==
    /\ inventory = <<>>
    /\ pc = "idle"
    /\ request = Absent
    /\ body = Absent
    /\ enriched = <<>>
    /\ stored = {}
    /\ response = NoReply
    /\ primaryFailure = "none"
    /\ fallbackCalls = 0
    /\ fallbackDb = "none"
    /\ recorderInput = Absent
    /\ earlier = Absent

\* the usage cards of the page the model selects from, and no selection
UsageChoices == {"", "gaming", "office"}

\* data.recommendations of a response to api.getRecommendations
PageRecLists ==
    UNION {[1..n -> [spec_id : {1, 2}, relevance_score : {FallbackScore, 90}]] :
              n \in 0..MaxPageItems}

\* the rows of a response to api.getByUsage
ByUsageLists == UNION {[1..n -> [model_id : {1, 2}]] : n \in 0..MaxPageItems}

\* a page whose finally block runs after a success only
LoadingClearedOnSuccessOnly(outcome) == outcome # "success"

\* finally { setLoading(false) } (part_004:114-116): the value of loading
\* once the call has ended with the given outcome
LoadingAfter(outcome) == FALSE

\* setPreferences({ ...preferences, usage }) of a usage card
SelectUsage(u) ==
    /\ usage' = u
    /\ UNCHANGED <<loading, recommendations, pagePc, clickUsage, shownFrom,
                   pageOutcome, notPage>>

\* part_004:64-97, behind disabled={loading} (part_004:219-227):
\* setLoading(true), then await api.getRecommendations
ClickGetRecommendations ==
    /\ ~loading
    /\ pagePc = "ready"
    /\ loading' = TRUE
    /\ clickUsage' = usage
    /\ pagePc' = "awaitRecommend"
    /\ pageOutcome' = "none"
    /\ UNCHANGED <<recommendations, usage, shownFrom, notPage>>

\* part_004:97-98: setRecommendations(data.recommendations || []), finally
RecommendSucceeds(list) ==
    /\ pagePc = "awaitRecommend"
    /\ recommendations' = list
    /\ shownFrom' = "recommend"
    /\ pageOutcome' = "success"
    /\ loading' = LoadingAfter("success")
    /\ pagePc' = "ready"
    /\ UNCHANGED <<usage, clickUsage, notPage>>

\* part_004:99-102: api.getRecommendations rejects; with a usage selected
\* the page awaits api.getByUsage, without one it goes to finally
RecommendFails ==
    /\ pagePc = "awaitRecommend"
    /\ IF clickUsage # ""
       THEN /\ pagePc' = "awaitByUsage"
            /\ UNCHANGED <<loading, pageOutcome>>
       ELSE /\ pagePc' = "ready"
            /\ pageOutcome' = "failed without usage"
            /\ loading' = LoadingAfter("failed without usage")
    /\ UNCHANGED <<recommendations, usage, clickUsage, shownFrom, notPage>>

\* part_004:103-109: setRecommendations(data.map(item => ({ spec_id:
\* item.model_id, relevance_score: 0.8, laptop: item }))), finally
ByUsageSucceeds(rows) ==
    /\ pagePc = "awaitByUsage"
    /\ recommendations' =
           [k \in 1..Len(rows) |->
               [spec_id |-> rows[k].model_id, relevance_score |-> ByUsageScore]]
    /\ shownFrom' = "by-usage"
    /\ pageOutcome' = "fallback success"
    /\ loading' = LoadingAfter("fallback success")
    /\ pagePc' = "ready"
    /\ UNCHANGED <<usage, clickUsage, notPage>>

\* part_004:110-112: api.getByUsage rejects; the inner catch logs, finally
ByUsageFails ==
    /\ pagePc = "awaitByUsage"
    /\ pageOutcome' = "both failed"
    /\ loading' = LoadingAfter("both failed")
    /\ pagePc' = "ready"
    /\ UNCHANGED <<recommendations, usage, clickUsage, shownFrom, notPage>>

\* the requests of the page settle, one way or the other
PageRequestSettles ==
    \/ \E list \in PageRecLists : RecommendSucceeds(list)
    \/ RecommendFails
    \/ \E rows \in ByUsageLists : ByUsageSucceeds(rows)
    \/ ByUsageFails

PageInit == HandlerIdle /\ SideIdle

PageNext ==
    \/ \E u \in UsageChoices : SelectUsage(u)
    \/ ClickGetRecommendations
    \/ \E list \in PageRecLists : RecommendSucceeds(list)
    \/ RecommendFails
    \/ \E rows \in ByUsageLists : ByUsageSucceeds(rows)
    \/ ByUsageFails

\* The claims about the page speak of requests that have an outcome, so the
\* steps that settle a request are taken once enabled.
PageSpec == PageInit /\ [][PageNext]_vars /\ WF_vars(PageRequestSettles)

----------------------------------------------------------------------------
(* PATCH /inventory/:id/stock (inventory.ts:260-290) on one row              *)

StockOperations == {"add", "remove", "set", "toggle"}
StockQuantities == {-1, 1, 2}

Greatest(a, b) == IF a >= b THEN a ELSE b

\* the remove statement without GREATEST
StockAssignedUnclamped(operation, quantity, row) ==
    CASE operation = "set" -> quantity
      [] operation = "add" -> row + quantity
      [] OTHER -> row - quantity

\* the SET clause of the three UPDATE statements (inventory.ts:267-275):
\* the value assigned to stock_quantity when the row holds row
StockAssigned(operation, quantity, row) ==
    CASE operation = "set" -> quantity
      [] operation = "add" -> row + quantity
      [] OTHER -> Greatest(0, row - quantity)

\* CONSTRAINT chk_stock_quantity CHECK (stock_quantity >= 0)
chk_stock_quantity(value) == value >= 0

\* an UPDATE that computes from the row as it was when the request arrived
RowSeenOnArrival(c) == stockReqs[c].seen

\* the row an UPDATE computes from: the statement locks the row and reads
\* its latest committed stock_quantity
RowSeenByUpdate(c) == stock

\* inventory.ts:261-282: the handler picks the statement and sends it; an
\* operation other than add, remove, set is answered 400 at once
PatchStock(c, operation, quantity) ==
    /\ stockReqs[c].pc = "idle"
    /\ IF operation \in {"add", "remove", "set"}
       THEN stockReqs' = [stockReqs EXCEPT ![c] =
                [NoStockRequest EXCEPT !.pc = "sent", !.operation = operation,
                                       !.quantity = quantity, !.seen = stock]]
       ELSE stockReqs' = [stockReqs EXCEPT ![c] =
                [NoStockRequest EXCEPT !.pc = "done", !.operation = operation,
                                       !.quantity = quantity, !.seen = stock,
                                       !.before = stock, !.after = stock,
                                       !.status = 400]]
    /\ UNCHANGED <<stock, batchStart, notStock>>

\* inventory.ts:284-289: the UPDATE runs as one statement; a value that
\* violates chk_stock_quantity aborts it and the error handler answers 500
UpdateStock(c) ==
    /\ stockReqs[c].pc = "sent"
    /\ StockAssigned(stockReqs[c].operation, stockReqs[c].quantity,
                     RowSeenByUpdate(c)) <= MaxStock
    /\ LET value == StockAssigned(stockReqs[c].operation, stockReqs[c].quantity,
                                  RowSeenByUpdate(c))
       IN IF chk_stock_quantity(value)
          THEN /\ stock' = value
               /\ stockReqs' = [stockReqs EXCEPT ![c].pc = "done",
                                    ![c].before = stock, ![c].after = value,
                                    ![c].status = 200]
          ELSE /\ stock' = stock
               /\ stockReqs' = [stockReqs EXCEPT ![c].pc = "done",
                                    ![c].before = stock, ![c].after = stock,
                                    ![c].status = 500]
    /\ UNCHANGED <<batchStart, notStock>>

\* every request in flight has been answered; the clients go on
NextStockRequests ==
    /\ \A c \in 1..NumClients : stockReqs[c].pc # "sent"
    /\ \E c \in 1..NumClients : stockReqs[c].pc = "done"
    /\ stockReqs' = [c \in 1..NumClients |-> NoStockRequest]
    /\ batchStart' = stock
    /\ UNCHANGED <<stock, notStock>>

StockInit ==
    /\ HandlerIdle
    /\ PageIdle
    /\ RegisterIdle
    /\ PoolIdle
    /\ BrowseIdle
    /\ stock \in 0..1
    /\ batchStart = stock
    /\ stockReqs = [c \in 1..NumClients |-> NoStockRequest]

StockNext ==
    \/ \E c \in 1..NumClients, operation \in StockOperations,
          quantity \in StockQuantities : PatchStock(c, operation, quantity)
    \/ \E c \in 1..NumClients : UpdateStock(c)
    \/ NextStockRequests

StockSpec == StockInit /\ [][StockNext]_vars

----------------------------------------------------------------------------
(* POST /users/register (users.ts:26-67)                                     *)

Emails == {"a@x.pk", "b@x.pk"}
UserTypes == {"customer", "vendor"}

\* SELECT user_id FROM users WHERE email = $1: rowCount > 0
EmailExists(email) == \E u \in users : u.email = email

\* the answer that ends a registration
Answered(c, status, message) ==
    regs' = [regs EXCEPT ![c].pc = "done", ![c].status = status,
                         ![c].message = message]

\* users.ts:27-34: parse the body and send the SELECT
Register(c, email, user_type) ==
    /\ regs[c].pc = "idle"
    /\ regs' = [regs EXCEPT ![c] =
           [NoRegistration EXCEPT !.pc = "select", !.email = email,
                                  !.user_type = user_type]]
    /\ UNCHANGED <<users, vendors, notRegister>>

\* users.ts:31-41: the SELECT answers; 409 when it found the email
CheckEmail(c) ==
    /\ regs[c].pc = "select"
    /\ IF EmailExists(regs[c].email)
       THEN regs' = [regs EXCEPT ![c].pc = "done", ![c].taken = TRUE,
                                 ![c].status = 409,
                                 ![c].message = "Email already registered"]
       ELSE regs' = [regs EXCEPT ![c].pc = "insert user"]
    /\ UNCHANGED <<users, vendors, notRegister>>

\* users.ts:46-51: INSERT INTO users; email is UNIQUE (part_010:47), so the
\* insert of an email another registration has inserted meanwhile fails, and
\* the error reaches the error handler (500).  dbOk: the statement reaches
\* the database
InsertUser(c, dbOk) ==
    /\ regs[c].pc = "insert user"
    /\ IF ~dbOk
       THEN /\ Answered(c, 500, "query failed")
            /\ UNCHANGED users
       ELSE IF EmailExists(regs[c].email)
       THEN /\ regs' = [regs EXCEPT ![c].pc = "done", ![c].taken = TRUE,
                                    ![c].status = 500,
                                    ![c].message = "duplicate key value violates unique constraint"]
            /\ UNCHANGED users
       ELSE /\ users' = users \cup
                   {[user_id |-> Cardinality(users) + 1, email |-> regs[c].email,
                     user_type |-> regs[c].user_type]}
            /\ IF regs[c].user_type = "vendor"
               THEN regs' = [regs EXCEPT ![c].pc = "insert vendor",
                                         ![c].user_id = Cardinality(users) + 1]
               ELSE regs' = [regs EXCEPT ![c].pc = "done",
                                         ![c].user_id = Cardinality(users) + 1,
                                         ![c].status = 201,
                                         ![c].message = "User registered successfully"]
    /\ UNCHANGED <<vendors, notRegister>>

\* users.ts:53-66: INSERT INTO vendors in a statement of its own, then 201;
\* when it fails the error handler answers 500 and the user row stays
InsertVendor(c, dbOk) ==
    /\ regs[c].pc = "insert vendor"
    /\ IF dbOk
       THEN /\ vendors' = Append(vendors, regs[c].user_id)
            /\ Answered(c, 201, "User registered successfully")
       ELSE /\ Answered(c, 500, "query failed")
            /\ UNCHANGED vendors
    /\ UNCHANGED <<users, notRegister>>

\* the client is free for another registration
RegisterAgain(c) ==
    /\ regs[c].pc = "done"
    /\ regs' = [regs EXCEPT ![c] = NoRegistration]
    /\ UNCHANGED <<users, vendors, notRegister>>

RegisterInit == HandlerIdle /\ SideIdle

RegisterNext ==
    \/ \E c \in 1..NumClients, email \in Emails, user_type \in UserTypes :
           Register(c, email, user_type)
    \/ \E c \in 1..NumClients : CheckEmail(c)
    \/ \E c \in 1..NumClients, dbOk \in BOOLEAN : InsertUser(c, dbOk)
    \/ \E c \in 1..NumClients, dbOk \in BOOLEAN : InsertVendor(c, dbOk)
    \/ \E c \in 1..NumClients : RegisterAgain(c)

RegisterSpec == RegisterInit /\ [][RegisterNext]_vars

----------------------------------------------------------------------------
(* db/index.ts: the db plugin and getPool (db/index.ts:17-60)                *)

\* db/index.ts:20-30: app.register(db) runs the plugin: pool = new
\* PgPool(poolConfig), then the connection test is awaited
RegisterDb ==
    /\ plugin \in {"unregistered", "failed", "closed"}
    /\ pool' = Some("open")
    /\ plugin' = "testing"
    /\ UNCHANGED <<getPoolLog, notPool>>

\* db/index.ts:33-51: the test query answers; the plugin decorates the
\* application and adds the onClose hook
ConnectionTestSucceeds ==
    /\ plugin = "testing"
    /\ plugin' = "registered"
    /\ UNCHANGED <<pool, getPoolLog, notPool>>

\* db/index.ts:36-39: the test query fails; the plugin logs and rethrows,
\* and pool keeps the object assigned at line 30
ConnectionTestFails ==
    /\ plugin = "testing"
    /\ plugin' = "failed"
    /\ UNCHANGED <<pool, getPoolLog, notPool>>

\* db/index.ts:45-47: app.close() runs the onClose hook, which awaits
\* pool.end()
CloseApp ==
    /\ plugin = "registered"
    /\ plugin' = "closing"
    /\ pool' = IF Declared(pool) THEN Some("ended") ELSE pool
    /\ UNCHANGED <<getPoolLog, notPool>>

\* db/index.ts:47-49: pool.end() has resolved; pool = null
PoolEnded ==
    /\ plugin = "closing"
    /\ pool' = Absent
    /\ plugin' = "closed"
    /\ UNCHANGED <<getPoolLog, notPool>>

\* db/index.ts:55-60: if (!pool) throw new Error(...); return pool
getPool == IF Declared(pool) THEN "pool" ELSE "throws"

\* some code calls getPool()
CallGetPool ==
    /\ Len(getPoolLog) < MaxGetPoolCalls
    /\ getPoolLog' = Append(getPoolLog, [plugin |-> plugin, result |-> getPool])
    /\ UNCHANGED <<pool, plugin, notPool>>

PoolInit == HandlerIdle /\ SideIdle

PoolNext ==
    \/ RegisterDb
    \/ ConnectionTestSucceeds
    \/ ConnectionTestFails
    \/ CloseApp
    \/ PoolEnded
    \/ CallGetPool

PoolSpec == PoolInit /\ [][PoolNext]_vars

----------------------------------------------------------------------------
(* BrowsePage: fetchLaptops, handleSearch, Clear (part_005:59-92, 148-163)   *)

\* what issues a request: the effect on filters (mount and every filter
\* change), handleSearch, the Clear button
BrowseSources == {"filters", "search", "clear"}

\* part_005:59-75, 79-92, 150-158: the page sends a request and goes on; no
\* request is cancelled and none carries a mark of its turn
IssueBrowseRequest(source) ==
    /\ Len(browseRequests) < MaxBrowseRequests
    /\ browseRequests' = Append(browseRequests, source)
    /\ browsePending' = browsePending \cup {Len(browseRequests) + 1}
    /\ UNCHANGED <<browseFailed, laptops, notBrowse>>

\* setLaptops(data), setLaptops(results), .then(setLaptops): the response of
\* request n arrives and is displayed, whichever request it answers
BrowseResponseArrives(n) ==
    /\ n \in browsePending
    /\ browsePending' = browsePending \ {n}
    /\ laptops' = n
    /\ UNCHANGED <<browseRequests, browseFailed, notBrowse>>

\* request n is rejected: the catch blocks log (part_005:69-70, 86-87), the
\* Clear button has none; the list stays
BrowseRequestFails(n) ==
    /\ n \in browsePending
    /\ browsePending' = browsePending \ {n}
    /\ browseFailed' = browseFailed \cup {n}
    /\ UNCHANGED <<browseRequests, laptops, notBrowse>>

\* the page has mounted: the effect on filters has sent the first request
BrowseInit ==
    /\ HandlerIdle
    /\ PageIdle
    /\ StockIdle
    /\ RegisterIdle
    /\ PoolIdle
    /\ browseRequests = <<"filters">>
    /\ browsePending = {1}
    /\ browseFailed = {}
    /\ laptops = 0

BrowseNext ==
    \/ \E source \in BrowseSources : IssueBrowseRequest(source)
    \/ \E n \in 1..MaxBrowseRequests : BrowseResponseArrives(n)
    \/ \E n \in 1..MaxBrowseRequests : BrowseRequestFails(n)

BrowseSpec == BrowseInit /\ [][BrowseNext]_vars

----------------------------------------------------------------------------
(* The claims *)

\* a list was sent, and it came from the try block
PrimaryListSent == pc = "done" /\ response.status = 200 /\ fallbackCalls = 0

\* a list was sent, and it came from getFallbackRecommendations
FallbackListSent == pc = "done" /\ response.status = 200 /\ fallbackCalls = 1

SentList == response.recommendations
SentPrice(k) == Val(Val(SentList[k].laptop).min_price)
Prefs == Val(body).user_preferences

\* some row of inventory offers model m at price p, available and in stock
InStockAt(m, p) ==
    \E i \in 1..Len(inventory) :
        /\ inventory[i].model_id = m
        /\ inventory[i].unit_price = p
        /\ inventory[i].is_available
        /\ inventory[i].stock_quantity > 0

InStock(m) == \E p \in Prices : InStockAt(m, p)

\* C1: in POST /recommendations every failure of the primary path (service
\* unreachable, non-OK answer, malformed answer, an enrichment query that
\* fails) is caught and leads to exactly one call of the fallback ranker; what
\* the caller then gets is the fallback's list or the fallback's own error,
\* never the primary failure.
C1_PrimaryFailureBecomesFallback ==
    /\ fallbackCalls <= 1
    /\ primaryFailure # "none" => pc \in {"catch", "done"}
    /\ pc = "catch" => (primaryFailure # "none" /\ fallbackCalls = 0)
    /\ (pc = "done" /\ primaryFailure # "none") =>
           /\ fallbackCalls = 1
           /\ response.error \in {Absent, Some("ReferenceError"), Some("QueryError")}
           /\ response.status = 200 => response.note = FallbackNote

C1_Witness ==
    /\ pc = "done"
    /\ primaryFailure = "EnrichmentQueryFailed"
    /\ fallbackCalls = 1
    /\ response.status = 200
    /\ Len(SentList) > 0

\* C2: whatever the collaborators do, the caller gets a complete ranked list
\* or an error: never a list in which a candidate has no item data attached.
C2_ListIsComplete ==
    (pc = "done" /\ response.status = 200) =>
        \A k \in 1..Len(SentList) : Declared(SentList[k].laptop)

\* C3: the fallback ranker succeeds unless the catalog store is unreachable:
\* a request that called it ends with a failure exactly when its catalog
\* query found the store down.
C3_FallbackFailsOnlyWhenCatalogDown ==
    (pc = "done" /\ fallbackCalls = 1) =>
        (response.status # 200 <=> fallbackDb = "down")

\* C4: every request whose body was accepted eventually gets a response, even
\* when the ai-compute service never answers.
C4_EveryRequestIsAnswered == (pc = "fetch") ~> (pc = "done")

C7_PrimaryListIsInStock ==
    PrimaryListSent =>
        \A k \in 1..Len(SentList) :
            Declared(SentList[k].laptop) => InStock(SentList[k].spec_id)

\* the catalog items that pass the fallback's own filters
QualifyingItems == {inventory[i].model_id : i \in FallbackMatches(Prefs)}

C9_AtMostTopK ==
    /\ Declared(body) => (Val(body).top_k >= TopKMin /\ Val(body).top_k <= TopKMax)
    /\ (pc = "done" /\ response.status = 200) => Len(SentList) <= Val(body).top_k

\* C10: a fallback list is sorted ascending by live price: price(i) <= price(j)
\* for any two positions i < j.
C10_FallbackSortedByPrice ==
    FallbackListSent =>
        \A a, b \in 1..Len(SentList) : a < b => SentPrice(a) <= SentPrice(b)

\* a fallback list of two prices whose rows stand the other way round in the
\* table
C10_Witness ==
    /\ FallbackListSent
    /\ Len(SentList) = 2
    /\ SentPrice(1) < SentPrice(2)
    /\ Len(inventory) = 2
    /\ inventory[1].unit_price > inventory[2].unit_price

\* the rank of the model names of the catalog in ascending order
NameRank(name) == CASE name = "A" -> 1 [] name = "B" -> 2 [] OTHER -> 3

SentName(k) == Val(SentList[k].laptop).model_name

C13_RecorderFailureLeavesResponse ==
    (pc = "done" /\ Declared(recorderInput)) =>
        /\ response.status = 200
        /\ response.recommendations = enriched
        /\ primaryFailure = "none"
        /\ fallbackCalls = 0

\* a primary list was sent although the insert of a candidate that has a
\* laptop failed
C13_Witness ==
    /\ pc = "done"
    /\ Declared(recorderInput)
    /\ response.recommendations = enriched
    /\ \E k \in 1..Len(enriched) : Insertable(k) /\ k \notin stored

\* C14: the response does not wait for the analytics inserts: once they are
\* issued the reply follows, even if an insert never completes.
C14_ReplyDoesNotWaitForRecorder == (pc = "store") ~> (response.status = 200)

C16_NoteMarksFallback ==
    /\ FallbackListSent => response.note = FallbackNote
    /\ PrimaryListSent => response.note = Absent

\* a fallback list with a candidate in it, and its note
C16_Witness ==
    /\ FallbackListSent
    /\ Len(SentList) > 0
    /\ response.note = FallbackNote

\* every field the request declares holds a value of its type and range
DeclaredFieldsValid(req) ==
    /\ Declared(req.user_preferences.primary_usage) =>
           Val(req.user_preferences.primary_usage) \in UsageEnum
    /\ Declared(req.user_preferences.preferred_gpu_type) =>
           Val(req.user_preferences.preferred_gpu_type) \in GpuEnum
    /\ Declared(req.top_k) => Val(req.top_k) \in TopKMin..TopKMax

\* C17: a request is not rejected for a field it omits, the usage tag
\* included: when every declared field is valid the request passes validation.
C17_OmittedFieldsAreAccepted ==
    (pc = "done" /\ Declared(request) /\ DeclaredFieldsValid(Val(request))) =>
        response.error # Some("ZodError")

TopKOutOfRange(req) ==
    Declared(req.top_k) /\ Val(req.top_k) \notin TopKMin..TopKMax

C19_NoQualifyingItemGivesEmptyList ==
    (pc = "done" /\ Declared(body)) =>
        /\ (fallbackCalls = 1 /\ fallbackDb # "down" /\ QualifyingItems = {}) =>
               (response.status = 200 /\ SentList = <<>>)
        /\ (fallbackCalls = 0 /\ enriched = <<>>) =>
               (response.status = 200 /\ SentList = <<>>)

\* C20: the reason stored with a candidate is never the empty text, whatever
\* the candidate and the preferences; when no specific reason applies it is
\* the generic "Matches your preferences".
C20_ReasonNeverEmpty ==
    Declared(recorderInput) =>
        \A k \in 1..Len(Val(recorderInput)) :
            /\ Val(recorderInput)[k].recommendation_reason # ""
            /\ Reasons(enriched[k], Prefs) = <<>> =>
                   Val(recorderInput)[k].recommendation_reason = "Matches your preferences"

\* one candidate got the generic reason, another two specific reasons joined
C20_Witness ==
    /\ Declared(recorderInput)
    /\ \E j, k \in 1..Len(Val(recorderInput)) :
           /\ Val(recorderInput)[j].recommendation_reason = "Matches your preferences"
           /\ Val(recorderInput)[k].recommendation_reason =
                  "16GB RAM for smooth multitasking, Within your budget"

\* the reasons of candidate k of the primary list include "Within your budget"
WithinBudgetStored(k) ==
    /\ Val(recorderInput)[k].recommendation_reason =
           Join(Reasons(enriched[k], Prefs))
    /\ \E i \in 1..Len(Reasons(enriched[k], Prefs)) :
           Reasons(enriched[k], Prefs)[i] = "Within your budget"

\* C21: the reason "Within your budget" is stored for a candidate only when
\* its price is at most 0.95 times the declared max budget (100 * price <=
\* 95 * max_budget).
C21_WithinBudgetOnlyBelowThreshold ==
    Declared(recorderInput) =>
        \A k \in 1..Len(Val(recorderInput)) :
            WithinBudgetStored(k) =>
                100 * Val(Val(enriched[k].laptop).min_price) <= 95 * Val(Prefs.max_budget)

\* C22: every candidate of a list of the fallback ranker carries the
\* relevance score 0.5, at the candidate and in its laptop row.
C22_FallbackScoreIsFixed ==
    FallbackListSent =>
        \A k \in 1..Len(SentList) :
            /\ SentList[k].relevance_score = 50
            /\ Val(SentList[k].laptop).relevance_score = 50

\* a fallback list of two candidates of different models and prices
C22_Witness ==
    /\ FallbackListSent
    /\ Len(SentList) = 2
    /\ SentList[1].spec_id # SentList[2].spec_id
    /\ SentPrice(1) # SentPrice(2)
    /\ SentList[1].relevance_score = 50

\* C23: when the list the recommendations page shows came from the by-usage
\* request made after the recommendation request failed, every candidate is
\* shown with the relevance score 0.5.
C23_PageFallbackScore ==
    shownFrom = "by-usage" =>
        \A k \in 1..Len(recommendations) : recommendations[k].relevance_score = 50

\* C30: on the recommendations page, whenever loading is true it eventually
\* returns to false, whichever way the request of the page ends (success,
\* by-usage fallback, failure of both, failure with no usage selected).
C30_LoadingReturnsToFalse == loading ~> (~loading /\ pagePc = "ready")

\* both requests failed and the button is enabled again
C30_Witness ==
    /\ pageOutcome = "both failed"
    /\ pagePc = "ready"
    /\ ~loading

\* the stock a request leaves behind when it is served with nothing else
\* in flight, the row holding row
ServedAlone(c, row) ==
    IF /\ stockReqs[c].operation \in {"add", "remove", "set"}
       /\ chk_stock_quantity(StockAssigned(stockReqs[c].operation,
                                           stockReqs[c].quantity, row))
    THEN StockAssigned(stockReqs[c].operation, stockReqs[c].quantity, row)
    ELSE row

RECURSIVE ServedInOrder(_, _)
ServedInOrder(order, row) ==
    IF Len(order) = 0 THEN row
    ELSE ServedInOrder(Tail(order), ServedAlone(order[1], row))

AnsweredClients == {c \in 1..NumClients : stockReqs[c].pc = "done"}

\* C24: the stock of the row is never negative; a remove of more units than
\* are in stock leaves the stock at 0, and an add or set whose result would
\* be negative leaves the stock as it was.
C24_StockNeverNegative ==
    /\ stock >= 0
    /\ \A c \in AnsweredClients :
           /\ (/\ stockReqs[c].operation = "remove"
               /\ stockReqs[c].quantity > stockReqs[c].before) =>
                  (stockReqs[c].after = 0 /\ stockReqs[c].status = 200)
           /\ (/\ stockReqs[c].operation = "add"
               /\ stockReqs[c].before + stockReqs[c].quantity < 0) =>
                  stockReqs[c].after = stockReqs[c].before
           /\ (stockReqs[c].operation = "set" /\ stockReqs[c].quantity < 0) =>
                  stockReqs[c].after = stockReqs[c].before

\* a remove of two units from a stock of one, and a set to a negative
\* quantity that was refused
C24_Witness ==
    \E c, d \in AnsweredClients :
        /\ stockReqs[c].operation = "remove"
        /\ stockReqs[c].quantity = 2
        /\ stockReqs[c].before = 1
        /\ stockReqs[c].after = 0
        /\ stockReqs[d].operation = "set"
        /\ stockReqs[d].quantity < 0
        /\ stockReqs[d].status = 500

\* C25: when the concurrent requests on the row have all been answered, the
\* stock is what serving the same requests one after the other, in some
\* order, leaves: no update is lost.
C25_StockUpdatesSerializable ==
    (\A c \in 1..NumClients : stockReqs[c].pc # "sent") =>
        \E order \in Arrangements(AnsweredClients) :
            stock = ServedInOrder(order, batchStart)

\* two requests were in flight together and the row changed under one of
\* them between its arrival and its update
C25_Witness ==
    /\ \A c \in 1..NumClients : stockReqs[c].pc # "sent"
    /\ \E c, d \in AnsweredClients :
           /\ c # d
           /\ stockReqs[c].operation = "add"
           /\ stockReqs[d].operation \in {"add", "remove"}
           /\ stockReqs[c].status = 200
           /\ stockReqs[d].status = 200
           /\ stockReqs[d].seen = stockReqs[c].seen
           /\ stockReqs[d].before # stockReqs[d].seen

\* C26: no two users share an email, and a registration that found its
\* email taken has been answered 409 "Email already registered".
C26_TakenEmailGets409 ==
    /\ \A u, v \in users : u.email = v.email => u = v
    /\ \A c \in 1..NumClients :
           (regs[c].pc = "done" /\ regs[c].taken) =>
               /\ regs[c].status = 409
               /\ regs[c].message = "Email already registered"
               /\ regs[c].user_id = 0

\* the vendor rows of user uid
VendorRecords(uid) == {k \in 1..Len(vendors) : vendors[k] = uid}

\* C27: whenever no registration is in flight, every user of type vendor has
\* exactly one row in vendors.
C27_VendorHasItsRecord ==
    (\A c \in 1..NumClients : regs[c].pc \in {"idle", "done"}) =>
        \A u \in users :
            u.user_type = "vendor" => Cardinality(VendorRecords(u.user_id)) = 1

\* C28: every call of getPool() that returned a pool was made while the db
\* plugin was registered; before the registration succeeded, after a failed
\* connection test and after the close, the call threw.
C28_PoolOnlyWhileRegistered ==
    \A k \in 1..Len(getPoolLog) :
        getPoolLog[k].result = "pool" <=> getPoolLog[k].plugin = "registered"

\* C29: on the browse page, once no request is outstanding, the list
\* displayed is the response to the request issued last (when that request
\* was answered), in whatever order the responses arrived.
C29_LatestResponseShown ==
    (browsePending = {} /\ Len(browseRequests) \notin browseFailed) =>
        laptops = Len(browseRequests)

====
